---- MODULE Spec2Model ----
(***************************************************************************)
(* push2_python: the action handler registry, trigger_action, the          *)
(* action_handler decorator and the routing of inbound MIDI messages       *)
(* (src/push2_python/__init__.py).                                         *)
(*                                                                         *)
(* Encodings.  A Python string that names an action is the sequence of its *)
(* parts: a class name is the one-part sequence <<"ACTION_PAD_PRESSED">>,  *)
(* a per-instance name is the class name followed by the selector part.    *)
(* An optional argument is a sequence of length 0 (None) or 1 (the value). *)
(* Keyword arguments are a set of <<key, value>> pairs.                    *)
(***************************************************************************)
EXTENDS Integers, Sequences, FiniteSets, TLC

VARIABLES
    action_handler_registry, \* the module-level defaultdict(list)
    push,                    \* the fields of each Push2 instance
    op,                      \* the operation that ran last, with its inputs
    calls,                   \* the handler invocations that operation made, in order
    ret,                     \* what that operation returned
    raised,                  \* the exception that escaped it, or NoError
    out                      \* the calls that operation made on the decoders and
                             \* on the MIDI output port, in order

vars == <<action_handler_registry, push, op, calls, ret, raised, out>>

\* At most this many registrations are made in one run.
MaxRegs == 2

---------------------------------------------------------------------------
\* Values

None == <<>>
Some(x) == <<x>>
NoError == "NoError"

ACTION_BUTTON_PRESSED == <<"ACTION_BUTTON_PRESSED">>
ACTION_BUTTON_RELEASED == <<"ACTION_BUTTON_RELEASED">>
ACTION_TOUCHSTRIP_TOUCHED == <<"ACTION_TOUCHSTRIP_TOUCHED">>
ACTION_PAD_PRESSED == <<"ACTION_PAD_PRESSED">>
ACTION_PAD_RELEASED == <<"ACTION_PAD_RELEASED">>
ACTION_PAD_AFTERTOUCH == <<"ACTION_PAD_AFTERTOUCH">>

ButtonActions == {ACTION_BUTTON_PRESSED, ACTION_BUTTON_RELEASED}
PadActions == {ACTION_PAD_PRESSED, ACTION_PAD_RELEASED, ACTION_PAD_AFTERTOUCH}
ActionClasses == ButtonActions \cup PadActions \cup {ACTION_TOUCHSTRIP_TOUCHED}

\* The handlers application code decorates.
Handlers == {"h1", "h2"}
\* A handler whose body raises, and the exception it raises.
RaisingHandlers == {"h_raises"}
HandlerError == "HandlerError"
\* The facade instances application code constructs.
Pushes == {"push"}
\* A second instance, for the runs that construct two.
AllPushes == Pushes \cup {"push_b"}

\* The pads the inputs address, by number and by coordinate (row, column),
\* and the device map's numbering of the 8 x 8 grid: row by row, eight to a
\* row, from 36.
PadNs == {36, 37}
PadIJs == {<<0, 0>>, <<0, 1>>}
pad_ij_to_pad_n(i, j) == 36 + i * 8 + j
pad_n_to_pad_ij(n) == <<(n - 36) \div 8, (n - 36) % 8>>

\* The buttons the inputs address, and the device map's control numbers.
ButtonNames == {"Play"}
button_cc(name) == CASE name = "Play" -> 85 [] OTHER -> 0

\* '{}'.format(n) for a pad number.
PadLabel(n) == CASE n = 36 -> "36" [] n = 37 -> "37" [] OTHER -> "other"

get_individual_button_action_name(action_name, button_name) ==
    action_name \o <<button_name>>

get_individual_pad_action_name(action_name, pad_n, pad_ij) ==
    LET n == IF pad_n # None
                 THEN pad_n[1]
                 ELSE pad_ij_to_pad_n(pad_ij[1][1], pad_ij[1][2])
    IN  action_name \o <<PadLabel(n)>>

---------------------------------------------------------------------------
\* The registry: a dictionary from action name to the list of its handlers.

\* The list a lookup by key finds, without inserting the key.
HandlersOf(reg, action) == IF action \in DOMAIN reg THEN reg[action] ELSE <<>>

NRegistrations(reg) ==
    LET RECURSIVE Sum(_)
        Sum(keys) == IF keys = {} THEN 0
                     ELSE LET k == CHOOSE x \in keys : TRUE
                          IN  Len(reg[k]) + Sum(keys \ {k})
    IN  Sum(DOMAIN reg)

\* Mutant: the selector is never looked at.
ResolveActionGeneric(action_name, button_name, pad_n, pad_ij) == action_name

\* Mutant: the button name is not tested against None.
ResolveActionNoneName(action_name, button_name, pad_n, pad_ij) ==
    IF action_name \in ButtonActions
        THEN get_individual_button_action_name(
                 action_name, IF button_name = None THEN "None" ELSE button_name[1])
        ELSE IF action_name \in PadActions /\ (pad_n # None \/ pad_ij # None)
                 THEN get_individual_pad_action_name(action_name, pad_n, pad_ij)
                 ELSE action_name

\* Mutant: a pad selector is honoured for every class.
ResolveActionAnyPad(action_name, button_name, pad_n, pad_ij) ==
    IF pad_n # None \/ pad_ij # None
        THEN get_individual_pad_action_name(action_name, pad_n, pad_ij)
        ELSE IF action_name \in ButtonActions /\ button_name # None
                 THEN get_individual_button_action_name(action_name, button_name[1])
                 ELSE action_name

\* wrapper, lines 97-106: the name the handler is registered under.
ResolveAction(action_name, button_name, pad_n, pad_ij) ==
    LET a1 == IF action_name \in ButtonActions /\ button_name # None
                  THEN get_individual_button_action_name(action_name, button_name[1])
                  ELSE action_name
    IN  IF action_name \in PadActions /\ (pad_n # None \/ pad_ij # None)
            THEN get_individual_pad_action_name(action_name, pad_n, pad_ij)
            ELSE a1

\* Mutant: the new handler replaces the list.
RegistryAppendReplace(reg, action, func) ==
    [a \in DOMAIN reg \cup {action} |->
        IF a = action THEN <<func>> ELSE reg[a]]

\* Mutant: the new handler goes to the front of the list.
RegistryAppendFront(reg, action, func) ==
    [a \in DOMAIN reg \cup {action} |->
        IF a = action THEN <<func>> \o HandlersOf(reg, a) ELSE reg[a]]

\* action_handler_registry[action].append(func), line 108: the defaultdict
\* inserts an empty list for a missing key, then the handler is appended.
RegistryAppend(reg, action, func) ==
    [a \in DOMAIN reg \cup {action} |->
        IF a = action THEN Append(HandlersOf(reg, a), func) ELSE reg[a]]

---------------------------------------------------------------------------
\* trigger_action

Call(func, args, kwargs) == [func |-> func, args |-> args, kwargs |-> kwargs]

\* Mutant: the call is wrapped in a try/except that swallows the exception.
HandlerCallsCaught(funcs, new_args, kwargs) ==
    IF Len(funcs) = 0
        THEN [calls |-> <<>>, raised |-> "IndexError"]
        ELSE [calls |-> <<Call(funcs[1], new_args, kwargs)>>, raised |-> NoError]

\* func[0](*new_args, **kwargs), line 66: the first handler of the list.  No
\* try/except surrounds the call: what the handler raises leaves the call.
HandlerCalls(funcs, new_args, kwargs) ==
    IF Len(funcs) = 0
        THEN [calls |-> <<>>, raised |-> "IndexError"]
        ELSE [calls |-> <<Call(funcs[1], new_args, kwargs)>>,
              raised |-> IF funcs[1] \in RaisingHandlers THEN HandlerError
                                                         ELSE NoError]

\* Mutant: only the first payload argument is passed on.
NewArgsFirstOnly(self, args) ==
    IF Len(args) > 1 THEN <<self, args[2]>> ELSE <<self>>

\* lines 61-63
NewArgs(self, args) ==
    IF Len(args) > 1 THEN <<self>> \o Tail(args) ELSE <<self>>

\* Mutant: names of one class match each other, generic or per-instance.
ActionMatchesClass(action, action_name) == action[1] = action_name[1]

\* line 65
ActionMatches(action, action_name) == action = action_name

\* lines 59-66: the loop over the registry's items.  The result is the
\* invocations made and the exception that ended the loop, if any.
RECURSIVE TriggerLoop(_, _, _, _, _)
TriggerLoop(reg, keys, action_name, new_args, kwargs) ==
    IF keys = {}
        THEN [calls |-> <<>>, raised |-> NoError]
        ELSE LET action == CHOOSE k \in keys : TRUE
                 here == IF ActionMatches(action, action_name)
                             THEN HandlerCalls(reg[action], new_args, kwargs)
                             ELSE [calls |-> <<>>, raised |-> NoError]
             IN  IF here.raised # NoError
                     THEN here
                     ELSE LET rest == TriggerLoop(reg, keys \ {action}, action_name,
                                                  new_args, kwargs)
                          IN  [calls |-> here.calls \o rest.calls,
                               raised |-> rest.raised]

\* Mutant: the list is looked up by key instead of searched for.
TriggerResultLookup(reg, self, args, kwargs) ==
    HandlerCalls(HandlersOf(reg, args[1]), NewArgs(self, args), kwargs)

TriggerResult(reg, self, args, kwargs) ==
    TriggerLoop(reg, DOMAIN reg, args[1], NewArgs(self, args), kwargs)

---------------------------------------------------------------------------
\* Push2 instances

\* The class attributes, lines 25-31, before __init__ has run.  pc is the
\* point __init__ has reached; configure_usb, open_input and open_output
\* record what the device calls of __init__ did.
NewPush == [constructed |-> FALSE, pc |-> "new",
            midi_in_port |-> "None", midi_out_port |-> "None",
            callback |-> "None", display |-> "None",
            pads |-> "None", buttons |-> "None", touchtrip |-> "None",
            configure_usb |-> "not called", open_input |-> "not called",
            open_output |-> "not called"]

---------------------------------------------------------------------------
\* The subsystem decoders.  Each turns a raw message into the trigger_action
\* calls it makes on the facade, in order: first the generic name with the
\* element as payload, then the per-instance name.

Msg(type, num, val) == [type |-> type, num |-> num, val |-> val]

Messages ==
    {Msg("note_on", 36, 100), Msg("note_on", 37, 100), Msg("note_off", 36, 0),
     Msg("polytouch", 37, 50), Msg("note_on", 20, 100),
     Msg("control_change", 85, 127), Msg("control_change", 85, 0),
     Msg("pitchwheel", 0, 10)}

Trigger(args) == [args |-> args, kwargs |-> {}]

PadAction(type) ==
    CASE type = "note_on" -> ACTION_PAD_PRESSED
      [] type = "note_off" -> ACTION_PAD_RELEASED
      [] OTHER -> ACTION_PAD_AFTERTOUCH

pads_on_midi_message(message) ==
    IF message.type \in {"note_on", "note_off", "polytouch"} /\ message.num \in PadNs
        THEN LET action == PadAction(message.type)
                 pad_n == message.num
             IN  << Trigger(<<action, pad_n, pad_n_to_pad_ij(pad_n), message.val>>),
                    Trigger(<<get_individual_pad_action_name(action, Some(pad_n), None),
                              message.val>>) >>
        ELSE <<>>

buttons_on_midi_message(message) ==
    IF message.type = "control_change"
       /\ \E b \in ButtonNames : button_cc(b) = message.num
       /\ message.val \in {0, 127}
        THEN LET name == CHOOSE b \in ButtonNames : button_cc(b) = message.num
                 action == IF message.val = 127 THEN ACTION_BUTTON_PRESSED
                                                ELSE ACTION_BUTTON_RELEASED
             IN  << Trigger(<<action, name>>),
                    Trigger(<<get_individual_button_action_name(action, name)>>) >>
        ELSE <<>>

touchstrip_on_midi_message(message) ==
    IF message.type = "pitchwheel"
        THEN << Trigger(<<ACTION_TOUCHSTRIP_TOUCHED, message.val>>) >>
        ELSE <<>>

\* A decoder's trigger_action calls run one after the other against the
\* registry; an exception ends the run.
RECURSIVE RunTriggers(_, _, _)
RunTriggers(reg, self, triggers) ==
    IF triggers = <<>>
        THEN [calls |-> <<>>, raised |-> NoError]
        ELSE LET first == TriggerResult(reg, self, Head(triggers).args,
                                        Head(triggers).kwargs)
             IN  IF first.raised # NoError
                     THEN first
                     ELSE LET rest == RunTriggers(reg, self, Tail(triggers))
                          IN  [calls |-> first.calls \o rest.calls,
                               raised |-> rest.raised]

\* lines 84-86: one decoder's turn.  A decoder that is still None has no
\* on_midi_message attribute; otherwise the decoder is handed the message
\* (delegated) and makes its trigger_action calls.
DecoderTurn(reg, self, name, decoder, triggers) ==
    IF decoder = "None"
        THEN [calls |-> <<>>, raised |-> "AttributeError", delegated |-> <<>>]
        ELSE LET r == RunTriggers(reg, self, triggers)
             IN  [calls |-> r.calls, raised |-> r.raised, delegated |-> <<name>>]

\* Mutant: the message type selects the one decoder that is called.
OnMidiResultByType(reg, self, fields, message) ==
    IF message.type = "control_change"
        THEN DecoderTurn(reg, self, "buttons", fields.buttons,
                         buttons_on_midi_message(message))
        ELSE IF message.type = "pitchwheel"
                 THEN DecoderTurn(reg, self, "touchtrip", fields.touchtrip,
                                  touchstrip_on_midi_message(message))
                 ELSE DecoderTurn(reg, self, "pads", fields.pads,
                                  pads_on_midi_message(message))

\* lines 79-88
OnMidiResult(reg, self, fields, message) ==
    LET r1 == DecoderTurn(reg, self, "pads", fields.pads,
                          pads_on_midi_message(message))
        r2 == DecoderTurn(reg, self, "buttons", fields.buttons,
                          buttons_on_midi_message(message))
        r3 == DecoderTurn(reg, self, "touchtrip", fields.touchtrip,
                          touchstrip_on_midi_message(message))
    IN  IF r1.raised # NoError THEN r1
        ELSE IF r2.raised # NoError
                 THEN [calls |-> r1.calls \o r2.calls, raised |-> r2.raised,
                       delegated |-> r1.delegated \o r2.delegated]
                 ELSE [calls |-> r1.calls \o r2.calls \o r3.calls,
                       raised |-> r3.raised,
                       delegated |-> r1.delegated \o r2.delegated \o r3.delegated]

---------------------------------------------------------------------------
\* Push2 instances

\* configure_midi_ports, lines 68-73, as run by __init__, lines 48-52: the
\* input port is assigned before the output port is opened, and the callback
\* is installed only when both opened.  The OSError of either open is raised
\* again as Push2MIDIeviceNotFound, which __init__ catches and logs.
MidiFields(in_ok, out_ok) ==
    [midi_in_port |-> IF in_ok THEN "open" ELSE "None",
     midi_out_port |-> IF in_ok /\ out_ok THEN "open" ELSE "None",
     callback |-> IF in_ok /\ out_ok THEN "on_midi_message" ELSE "None",
     escaped |-> NoError]

\* What the two mido calls of configure_midi_ports did.
OpenInput(in_ok) == IF in_ok THEN "returned" ELSE "OSError"
OpenOutput(in_ok, out_ok) ==
    IF ~in_ok THEN "not called" ELSE IF out_ok THEN "returned" ELSE "OSError"

\* Mutant: Push2USBDeviceNotFound is not caught.
DisplayFieldsUncaught(usb_ok) ==
    [display |-> IF usb_ok THEN "configured" ELSE "unconfigured",
     configure_usb |-> IF usb_ok THEN "returned" ELSE "failed",
     escaped |-> IF usb_ok THEN NoError ELSE "Push2USBDeviceNotFound"]

\* lines 40-45: the display is created, then configure_usb_device runs;
\* Push2USBDeviceNotFound and Push2USBDeviceConfigurationError are caught and
\* logged.
DisplayFields(usb_ok) ==
    [display |-> IF usb_ok THEN "configured" ELSE "unconfigured",
     configure_usb |-> IF usb_ok THEN "returned" ELSE "failed",
     escaped |-> NoError]

\* Mutant: send is called on whatever midi_out_port holds.
SendResultUnguarded(fields, msg) ==
    IF fields.midi_out_port # "None"
        THEN [out |-> <<[target |-> "midi_out_port", message |-> msg]>>,
              raised |-> NoError]
        ELSE [out |-> <<>>, raised |-> "AttributeError"]

\* send_midi_to_push, lines 75-77
SendResult(fields, msg) ==
    IF fields.midi_out_port # "None"
        THEN [out |-> <<[target |-> "midi_out_port", message |-> msg]>>,
              raised |-> NoError]
        ELSE [out |-> <<>>, raised |-> NoError]

\* The decoders a message was handed to, as calls on collaborators.
Delegations(delegated, message) ==
    [i \in 1 .. Len(delegated) |-> [target |-> delegated[i], message |-> message]]

---------------------------------------------------------------------------
\* The state machine

Init ==
    /\ action_handler_registry = <<>>
    /\ push = [p \in AllPushes |-> NewPush]
    /\ op = [name |-> "import"]
    /\ calls = <<>>
    /\ ret = None
    /\ raised = NoError
    /\ out = <<>>

\* Push2.__init__, lines 34-57.  usb_ok: configure_usb_device returns;
\* in_ok, out_ok: mido opens the port (otherwise OSError).
InitFields(usb_ok, in_ok, out_ok) ==
    LET midi == MidiFields(in_ok, out_ok)
        disp == DisplayFields(usb_ok)
    IN  [constructed |-> TRUE, pc |-> "done",
         midi_in_port |-> midi.midi_in_port,
         midi_out_port |-> midi.midi_out_port,
         callback |-> midi.callback,
         display |-> disp.display,
         pads |-> "Push2Pads", buttons |-> "Push2Buttons",
         touchtrip |-> "Push2TouchStrip",
         configure_usb |-> disp.configure_usb,
         open_input |-> OpenInput(in_ok),
         open_output |-> OpenOutput(in_ok, out_ok)]

\* Mutant: each facade starts with a registry of its own.
Push2_init_own_registry(self, usb_ok, in_ok, out_ok) ==
    /\ push[self].pc = "new"
    /\ push' = [push EXCEPT ![self] = InitFields(usb_ok, in_ok, out_ok)]
    /\ op' = [name |-> "__init__", self |-> self]
    /\ calls' = <<>>
    /\ ret' = None
    /\ raised' = NoError
    /\ out' = <<>>
    /\ action_handler_registry' = <<>>

Push2_init(self, usb_ok, in_ok, out_ok) ==
    /\ push[self].pc = "new"
    /\ push' = [push EXCEPT ![self] = InitFields(usb_ok, in_ok, out_ok)]
    /\ op' = [name |-> "__init__", self |-> self]
    /\ calls' = <<>>
    /\ ret' = None
    /\ raised' = NoError
    /\ out' = <<>>
    /\ UNCHANGED action_handler_registry

\* Push2.__init__ as the steps the transport's thread can run between.
\* An exception that escapes a step ends the construction.
InitStep(self, from, to, fields, escaped) ==
    /\ push[self].pc = from
    /\ push' = [push EXCEPT ![self] =
                [f \in DOMAIN NewPush |->
                    IF f = "pc" THEN (IF escaped = NoError THEN to ELSE "aborted")
                    ELSE IF f = "constructed" THEN to = "done" /\ escaped = NoError
                    ELSE IF f \in DOMAIN fields THEN fields[f]
                    ELSE push[self][f]]]
    /\ op' = [name |-> "__init__", self |-> self]
    /\ calls' = <<>>
    /\ ret' = None
    /\ raised' = escaped
    /\ out' = <<>>
    /\ UNCHANGED action_handler_registry

\* lines 36-45
Push2_init_display(self, usb_ok) ==
    LET disp == DisplayFields(usb_ok)
    IN  InitStep(self, "new", "display",
                 [display |-> disp.display, configure_usb |-> disp.configure_usb],
                 disp.escaped)

\* lines 47-52: the callback is installed at line 50
Push2_init_midi(self, in_ok, out_ok) ==
    LET midi == MidiFields(in_ok, out_ok)
    IN  InitStep(self, "display", "midi",
                 [midi_in_port |-> midi.midi_in_port,
                  midi_out_port |-> midi.midi_out_port,
                  callback |-> midi.callback,
                  open_input |-> OpenInput(in_ok),
                  open_output |-> OpenOutput(in_ok, out_ok)],
                 midi.escaped)

\* line 55
Push2_init_pads(self) ==
    InitStep(self, "midi", "pads", [pads |-> "Push2Pads"], NoError)

\* line 56
Push2_init_buttons(self) ==
    InitStep(self, "pads", "buttons", [buttons |-> "Push2Buttons"], NoError)

\* line 57
Push2_init_touchtrip(self) ==
    InitStep(self, "buttons", "done", [touchtrip |-> "Push2TouchStrip"], NoError)

\* action_handler(action_name, button_name, pad_n, pad_ij)(func), lines 91-110
action_handler(action_name, button_name, pad_n, pad_ij, func) ==
    /\ action_handler_registry' =
           RegistryAppend(action_handler_registry,
                          ResolveAction(action_name, button_name, pad_n, pad_ij), func)
    /\ op' = [name |-> "register", action_name |-> action_name,
              button_name |-> button_name, pad_n |-> pad_n, pad_ij |-> pad_ij,
              func |-> func]
    /\ calls' = <<>>
    /\ ret' = Some(func)
    /\ raised' = NoError
    /\ out' = <<>>
    /\ UNCHANGED push

\* Mutant: the handlers are looked up with action_handler_registry[action_name],
\* which makes the default-list registry create the missing entry.
trigger_action_by_key(self, action_name, payload, kwargs) ==
    /\ push[self].constructed
    /\ LET r == TriggerResult(action_handler_registry, self,
                              <<action_name>> \o payload, kwargs)
       IN  /\ calls' = r.calls
           /\ raised' = r.raised
    /\ op' = [name |-> "trigger_action", self |-> self, action_name |-> action_name,
              payload |-> payload, kwargs |-> kwargs]
    /\ ret' = None
    /\ out' = <<>>
    /\ action_handler_registry' =
           [a \in DOMAIN action_handler_registry \cup {action_name} |->
               HandlersOf(action_handler_registry, a)]
    /\ UNCHANGED push

\* Push2.trigger_action(action_name, *payload, **kwargs), lines 59-66
trigger_action(self, action_name, payload, kwargs) ==
    /\ push[self].constructed
    /\ LET r == TriggerResult(action_handler_registry, self,
                              <<action_name>> \o payload, kwargs)
       IN  /\ calls' = r.calls
           /\ raised' = r.raised
    /\ op' = [name |-> "trigger_action", self |-> self, action_name |-> action_name,
              payload |-> payload, kwargs |-> kwargs]
    /\ ret' = None
    /\ out' = <<>>
    /\ UNCHANGED <<action_handler_registry, push>>

\* Push2.on_midi_message(message), lines 79-88: called by application code on
\* a constructed facade, and by the transport's thread from the moment the
\* callback is installed on the input port.
on_midi_message(self, message) ==
    /\ push[self].constructed \/ push[self].callback = "on_midi_message"
    /\ LET r == OnMidiResult(action_handler_registry, self, push[self], message)
       IN  /\ calls' = r.calls
           /\ raised' = r.raised
           /\ out' = Delegations(r.delegated, message)
    /\ op' = [name |-> "on_midi_message", self |-> self, message |-> message]
    /\ ret' = None
    /\ UNCHANGED <<action_handler_registry, push>>

\* Push2.send_midi_to_push(msg), lines 75-77
send_midi_to_push(self, msg) ==
    /\ push[self].constructed
    /\ LET r == SendResult(push[self], msg)
       IN  /\ out' = r.out
           /\ raised' = r.raised
    /\ op' = [name |-> "send_midi_to_push", self |-> self, message |-> msg]
    /\ calls' = <<>>
    /\ ret' = None
    /\ UNCHANGED <<action_handler_registry, push>>

\* The public decorators, lines 113-233: each passes its own selectors on to
\* action_handler and decorates func with the wrapper it returns.
on_button_pressed(button_name, func) ==
    action_handler(ACTION_BUTTON_PRESSED, button_name, None, None, func)

on_button_released(button_name, func) ==
    action_handler(ACTION_BUTTON_RELEASED, button_name, None, None, func)

on_touchstrip(func) ==
    action_handler(ACTION_TOUCHSTRIP_TOUCHED, None, None, None, func)

on_pad_pressed(pad_n, pad_ij, func) ==
    action_handler(ACTION_PAD_PRESSED, None, pad_n, pad_ij, func)

on_pad_released(pad_n, pad_ij, func) ==
    action_handler(ACTION_PAD_RELEASED, None, pad_n, pad_ij, func)

on_pad_aftertouch(pad_n, pad_ij, func) ==
    action_handler(ACTION_PAD_AFTERTOUCH, None, pad_n, pad_ij, func)

\* The inputs
Optional(S) == {None} \cup {Some(x) : x \in S}
ActionNames ==
    ActionClasses
    \cup {get_individual_button_action_name(a, b) : a \in ButtonActions, b \in ButtonNames}
    \cup {get_individual_pad_action_name(a, Some(n), None) : a \in PadActions, n \in PadNs}
    \cup {<<"ACTION_UNKNOWN">>}
\* Positional payload and keyword arguments of a direct trigger_action call
\* (the decoders' calls carry none, one or three positional arguments and no
\* keyword arguments).
TriggerInputs == {<<<<36, 100>>, {<<"velocity", 100>>}>>}
MayRegister == NRegistrations(action_handler_registry) < MaxRegs

\* Application code: it constructs the facade, decorates handlers with the
\* public decorators, triggers actions, and the transport delivers messages.
Next ==
    \/ \E self \in Pushes : Push2_init(self, TRUE, TRUE, TRUE)
    \/ MayRegister /\ \E button_name \in Optional(ButtonNames), func \in Handlers :
           on_button_pressed(button_name, func)
    \/ MayRegister /\ \E button_name \in Optional(ButtonNames), func \in Handlers :
           on_button_released(button_name, func)
    \/ MayRegister /\ \E func \in Handlers : on_touchstrip(func)
    \/ MayRegister /\ \E pad_n \in Optional(PadNs), pad_ij \in Optional(PadIJs),
                         func \in Handlers :
           on_pad_pressed(pad_n, pad_ij, func)
    \/ MayRegister /\ \E pad_n \in Optional(PadNs), pad_ij \in Optional(PadIJs),
                         func \in Handlers :
           on_pad_released(pad_n, pad_ij, func)
    \/ MayRegister /\ \E pad_n \in Optional(PadNs), pad_ij \in Optional(PadIJs),
                         func \in Handlers :
           on_pad_aftertouch(pad_n, pad_ij, func)
    \/ \E self \in Pushes, action_name \in ActionNames, input \in TriggerInputs :
           trigger_action(self, action_name, input[1], input[2])
    \/ \E self \in Pushes, message \in Messages : on_midi_message(self, message)

\* action_handler called directly, with every combination of class and
\* selectors.
NextDirect ==
    MayRegister
    /\ \E action_name \in ActionClasses, button_name \in Optional(ButtonNames),
          pad_n \in Optional(PadNs), pad_ij \in Optional(PadIJs), func \in Handlers :
           action_handler(action_name, button_name, pad_n, pad_ij, func)

\* The inputs of the runs that follow __init__ line by line and of the runs
\* with two facades.
SomeHandlers == {"h1"} \cup RaisingHandlers
SomePadNs == {36}
SomeActionNames ==
    {ACTION_PAD_PRESSED, ACTION_TOUCHSTRIP_TOUCHED, <<"ACTION_UNKNOWN">>}
    \cup {get_individual_pad_action_name(ACTION_PAD_PRESSED, Some(n), None) :
              n \in SomePadNs}
SomeMessages ==
    {Msg("note_on", 36, 100), Msg("control_change", 85, 127), Msg("pitchwheel", 0, 10)}
OutMessages == {Msg("note_on", 36, 127)}

\* __init__ runs line by line on the application's thread, with the display
\* and the MIDI ports present or missing; meanwhile the transport's thread
\* delivers messages to the installed callback, and handlers are decorated
\* (some of them raise).
NextInit ==
    \/ \E self \in Pushes, usb_ok \in BOOLEAN : Push2_init_display(self, usb_ok)
    \/ \E self \in Pushes, in_ok \in BOOLEAN, out_ok \in BOOLEAN :
           Push2_init_midi(self, in_ok, out_ok)
    \/ \E self \in Pushes : Push2_init_pads(self)
    \/ \E self \in Pushes : Push2_init_buttons(self)
    \/ \E self \in Pushes : Push2_init_touchtrip(self)
    \/ MayRegister /\ \E pad_n \in Optional(SomePadNs), func \in SomeHandlers :
           on_pad_pressed(pad_n, None, func)
    \/ MayRegister /\ \E func \in SomeHandlers : on_touchstrip(func)
    \/ \E self \in Pushes, action_name \in SomeActionNames, input \in TriggerInputs :
           trigger_action(self, action_name, input[1], input[2])
    \/ \E self \in Pushes, message \in SomeMessages : on_midi_message(self, message)
    \/ \E self \in Pushes, msg \in OutMessages : send_midi_to_push(self, msg)

\* Two facades in one process, and handlers decorated before, between and
\* after their construction.
NextShared ==
    \/ \E self \in AllPushes : Push2_init(self, TRUE, TRUE, TRUE)
    \/ MayRegister /\ \E pad_n \in Optional(SomePadNs), func \in Handlers :
           on_pad_pressed(pad_n, None, func)
    \/ MayRegister /\ \E func \in Handlers : on_touchstrip(func)
    \/ \E self \in AllPushes, action_name \in SomeActionNames, input \in TriggerInputs :
           trigger_action(self, action_name, input[1], input[2])
    \/ \E self \in AllPushes, message \in SomeMessages : on_midi_message(self, message)

Spec == Init /\ [][Next]_vars

SpecDirect == Init /\ [][NextDirect]_vars

SpecInit == Init /\ [][NextInit]_vars

SpecShared == Init /\ [][NextShared]_vars

---------------------------------------------------------------------------
\* Properties

IsPrefix(s, t) == Len(s) <= Len(t) /\ \A i \in 1 .. Len(s) : s[i] = t[i]
Count(seq, x) == Cardinality({i \in 1 .. Len(seq) : seq[i] = x})
CalledFuncs == [i \in 1 .. Len(calls) |-> calls[i].func]
\* The keys whose list the step changed or created.
ChangedKeys ==
    {k \in DOMAIN action_handler_registry' :
        HandlersOf(action_handler_registry, k) # action_handler_registry'[k]}
Registered == op.name = "register"
Triggered == op.name = "trigger_action"
Routed == op.name = "on_midi_message"

\* C1: trigger_action(id, ...) invokes every handler registered under id, in
\* registration order, once per registration (a handler registered twice is
\* invoked twice; h1 then h2 are both invoked, h1 first).
C1_AllHandlersInvoked ==
    Triggered => CalledFuncs = HandlersOf(action_handler_registry, op.action_name)

\* C2: with exactly one handler h registered under id, trigger_action(id,
\* a1, ..., an, **kw) on facade P invokes h exactly once, with P followed by
\* a1, ..., an in order and with the same keyword arguments.
C2_SingleHandlerCall ==
    (Triggered /\ Len(HandlersOf(action_handler_registry, op.action_name)) = 1)
        => /\ calls = << [func |-> action_handler_registry[op.action_name][1],
                          args |-> <<op.self>> \o op.payload,
                          kwargs |-> op.kwargs] >>
           /\ raised = NoError

C2_Witness ==
    /\ Triggered
    /\ Len(HandlersOf(action_handler_registry, op.action_name)) = 1
    /\ Len(op.payload) = 2
    /\ op.kwargs # {}
    /\ Len(calls) = 1

\* C3: trigger_action(id1) never invokes a handler that is not registered
\* under id1 itself, whatever is registered under other identifiers, the
\* generic and the per-instance identifiers of one class included.
C3_ExactMatchOnly ==
    Triggered =>
        \A i \in 1 .. Len(calls) :
            \E j \in 1 .. Len(HandlersOf(action_handler_registry, op.action_name)) :
                calls[i].func = action_handler_registry[op.action_name][j]

\* A handler is registered under the generic pad-pressed name only, and a
\* per-instance pad-pressed name was dispatched.
C3_Witness ==
    /\ Triggered
    /\ Len(op.action_name) = 2
    /\ op.action_name[1] = ACTION_PAD_PRESSED[1]
    /\ DOMAIN action_handler_registry = {ACTION_PAD_PRESSED}
    /\ calls = <<>>

\* C4: trigger_action(id) for an id with no registered handler invokes
\* nothing and raises nothing.
C4_UnregisteredNoOp ==
    (Triggered /\ HandlersOf(action_handler_registry, op.action_name) = <<>>)
        => calls = <<>> /\ raised = NoError

C4_Witness ==
    /\ Triggered
    /\ action_handler_registry # <<>>
    /\ op.action_name \notin DOMAIN action_handler_registry
    /\ calls = <<>>
    /\ raised = NoError

\* C5: a routed message for pad P pressed invokes every handler registered
\* under the generic pad-pressed name and every handler registered for P,
\* and no handler registered only for another pad.
C5_PadPressedRouting ==
    (Routed /\ op.message.type = "note_on" /\ op.message.num \in PadNs)
        => \A h \in Handlers :
               Count(CalledFuncs, h) =
                   Count(HandlersOf(action_handler_registry, ACTION_PAD_PRESSED), h)
                 + Count(HandlersOf(action_handler_registry,
                             get_individual_pad_action_name(
                                 ACTION_PAD_PRESSED, Some(op.message.num), None)), h)

\* C6: a handler registered with a selector its class admits lands under an
\* identifier other than the generic one, and a pad coordinate lands under
\* the identifier of the pad index of the same pad.
C6_SpecificDiffersFromGeneric ==
    [][(op'.name = "register"
        /\ \/ op'.action_name \in ButtonActions /\ op'.button_name # None
           \/ op'.action_name \in PadActions
              /\ (op'.pad_n # None \/ op'.pad_ij # None))
       => /\ op'.action_name \notin ChangedKeys
          /\ ChangedKeys # {}
          /\ (op'.action_name \in PadActions /\ op'.pad_n = None)
                => ChangedKeys =
                     {ResolveAction(op'.action_name, None,
                          Some(pad_ij_to_pad_n(op'.pad_ij[1][1], op'.pad_ij[1][2])),
                          None)}]_vars

\* A handler registered by coordinate joined the list of a handler
\* registered before it.
C6_Witness ==
    /\ Registered
    /\ op.action_name \in PadActions
    /\ op.pad_n = None
    /\ op.pad_ij # None
    /\ \E k \in DOMAIN action_handler_registry :
           Len(k) = 2 /\ Len(action_handler_registry[k]) = 2

\* C7: with no selector at all, the handler is registered under the action
\* class name itself, for each of the six classes.
C7_NoSelectorGeneric ==
    [][(op'.name = "register" /\ op'.button_name = None
        /\ op'.pad_n = None /\ op'.pad_ij = None)
       => ChangedKeys = {op'.action_name}]_vars

C7_Witness ==
    /\ Registered
    /\ op.button_name = None /\ op.pad_n = None /\ op.pad_ij = None
    /\ op.action_name \in ButtonActions
    /\ DOMAIN action_handler_registry = {op.action_name}

\* C8: a selector the class does not admit is ignored: touchstrip with any
\* selector, a button class with only a pad selector, a pad class with only
\* a button name, all register under the generic name of the class.
C8_ForeignSelectorIgnored ==
    [][(op'.name = "register"
        /\ \/ op'.action_name = ACTION_TOUCHSTRIP_TOUCHED
           \/ op'.action_name \in ButtonActions /\ op'.button_name = None
           \/ op'.action_name \in PadActions
              /\ op'.pad_n = None /\ op'.pad_ij = None)
       => ChangedKeys = {op'.action_name}]_vars

C8_Witness ==
    /\ Registered
    /\ op.action_name = ACTION_TOUCHSTRIP_TOUCHED
    /\ op.button_name # None /\ op.pad_n # None /\ op.pad_ij # None
    /\ DOMAIN action_handler_registry = {ACTION_TOUCHSTRIP_TOUCHED}

\* C9: registering h appends h at the end of the list of the resolved
\* identifier, creating the list if absent, leaves every other list as it
\* was, and returns h.
C9_RegisterAppends ==
    [][op'.name = "register"
       => LET id == ResolveAction(op'.action_name, op'.button_name,
                                  op'.pad_n, op'.pad_ij)
          IN  /\ DOMAIN action_handler_registry'
                   = DOMAIN action_handler_registry \cup {id}
              /\ action_handler_registry'[id]
                   = HandlersOf(action_handler_registry, id) \o <<op'.func>>
              /\ \A a \in DOMAIN action_handler_registry \ {id} :
                     action_handler_registry'[a] = action_handler_registry[a]
              /\ ret' = <<op'.func>>]_vars

C9_Witness ==
    /\ Registered
    /\ Cardinality(DOMAIN action_handler_registry) = 1
    /\ \E k \in DOMAIN action_handler_registry :
           /\ Len(action_handler_registry[k]) = 2
           /\ action_handler_registry[k][1] # action_handler_registry[k][2]
           /\ action_handler_registry[k][2] = op.func
    /\ ret = <<op.func>>

\* C10: over register, trigger_action and on_midi_message the registry only
\* grows: every key stays, and its list keeps its earlier entries as a prefix.
C10_AppendOnly ==
    [][\A id \in DOMAIN action_handler_registry :
          /\ id \in DOMAIN action_handler_registry'
          /\ IsPrefix(action_handler_registry[id], action_handler_registry'[id])]_vars

\* A routed message reached handlers of a registry holding two registrations.
C10_Witness ==
    /\ Routed
    /\ NRegistrations(action_handler_registry) = 2
    /\ Len(calls) = 2

---------------------------------------------------------------------------
\* Initialisation, failure isolation and the transport's thread

Sent == op.name = "send_midi_to_push"
Constructing == op.name = "__init__"
Targets == [i \in 1 .. Len(out) |-> out[i].target]
DecoderOrder == <<"pads", "buttons", "touchtrip">>
DecodersConstructed(p) ==
    /\ push[p].pads # "None"
    /\ push[p].buttons # "None"
    /\ push[p].touchtrip # "None"
MidiOpenFailed(p) ==
    push[p].open_input = "OSError" \/ push[p].open_output = "OSError"
MidiOpened(p) ==
    push[p].open_input = "returned" /\ push[p].open_output = "returned"

\* C11: when the input-port or the output-port open raised OSError, no
\* exception escapes __init__ and the construction goes on to build the
\* three decoders, the callback is never installed, the output port stays
\* None, and every later send_midi_to_push sends nothing and raises nothing.
C11_MidiFailureSilent ==
    \A p \in Pushes :
        MidiOpenFailed(p) =>
            /\ push[p].pc # "aborted"
            /\ (Constructing /\ op.self = p) => raised = NoError
            /\ push[p].callback = "None"
            /\ push[p].midi_out_port = "None"
            /\ push[p].pc = "done" => DecodersConstructed(p)
            /\ (Sent /\ op.self = p) => (out = <<>> /\ raised = NoError)

\* A send on a facade whose input port opened and whose output port did not.
C11_Witness ==
    /\ Sent
    /\ push[op.self].open_input = "returned"
    /\ push[op.self].open_output = "OSError"
    /\ push[op.self].midi_in_port = "open"
    /\ push[op.self].pc = "done"
    /\ out = <<>>

\* C12: when configure_usb_device failed, no exception escapes __init__ and
\* the construction goes on: the MIDI ports that can be opened are open, the
\* callback is installed, the decoders are constructed; on the constructed
\* facade a message reaches the three decoders and the handlers of its
\* event, and send_midi_to_push hands the message to the output port.
C12_DisplayFailureIsolated ==
    \A p \in Pushes :
        push[p].configure_usb = "failed" =>
            /\ push[p].pc # "aborted"
            /\ (Constructing /\ op.self = p) => raised = NoError
            /\ (push[p].pc \in {"midi", "pads", "buttons", "done"} /\ MidiOpened(p))
                   => /\ push[p].midi_in_port = "open"
                      /\ push[p].midi_out_port = "open"
                      /\ push[p].callback = "on_midi_message"
            /\ push[p].pc = "done" => DecodersConstructed(p)
            /\ (push[p].pc = "done" /\ MidiOpened(p) /\ Routed /\ op.self = p)
                   => /\ raised # "AttributeError"
                      /\ raised = NoError => Targets = DecoderOrder
                      /\ (/\ op.message.type = "note_on"
                          /\ HandlersOf(action_handler_registry,
                                        ACTION_PAD_PRESSED) # <<>>)
                             => Len(calls) >= 1
            /\ (push[p].pc = "done" /\ MidiOpened(p) /\ Sent /\ op.self = p)
                   => /\ out = <<[target |-> "midi_out_port",
                                  message |-> op.message]>>
                      /\ raised = NoError

\* A message routed to a handler by a facade whose display failed.
C12_Witness ==
    /\ Routed
    /\ push[op.self].configure_usb = "failed"
    /\ push[op.self].display = "unconfigured"
    /\ push[op.self].callback = "on_midi_message"
    /\ push[op.self].pc = "done"
    /\ Len(calls) >= 1
    /\ raised = NoError

\* C13: when a handler called by trigger_action raises, directly or through
\* on_midi_message, no further handler is called, the handler's exception
\* escapes the operation, and the operation leaves the registry as it was.
C13_HandlerExceptionPropagates ==
    [][(op'.name \in {"trigger_action", "on_midi_message"})
          => \A i \in 1 .. Len(calls') :
                 calls'[i].func \in RaisingHandlers
                     => /\ i = Len(calls')
                        /\ raised' = HandlerError
                        /\ action_handler_registry' = action_handler_registry]_vars

\* A handler's exception escaped on_midi_message.
C13_Witness ==
    /\ Routed
    /\ raised = HandlerError
    /\ Len(calls) >= 1
    /\ calls[Len(calls)].func \in RaisingHandlers
    /\ push[op.self].pc = "done"

C15_CallbackImpliesDecoders ==
    \A p \in Pushes :
        push[p].callback = "on_midi_message" => DecodersConstructed(p)

\* C16: trigger_action leaves the registry as it was, for registered and
\* unregistered names alike: no key appears, none disappears and no list
\* changes.
C16_TriggerKeepsRegistry ==
    [][op'.name = "trigger_action"
          => /\ DOMAIN action_handler_registry' = DOMAIN action_handler_registry
             /\ action_handler_registry' = action_handler_registry]_vars

\* An unregistered name was triggered while other names hold handlers, and
\* the name has no entry.
C16_Witness ==
    /\ Triggered
    /\ op.action_name = <<"ACTION_UNKNOWN">>
    /\ NRegistrations(action_handler_registry) = 2
    /\ Cardinality(DOMAIN action_handler_registry) = 2
    /\ op.action_name \notin DOMAIN action_handler_registry

====
